---- MODULE Spec2Model ----
(***************************************************************************)
(* DatastoreMilvusRepository (repositories/datastore/milvus.go): the       *)
(* repository operations CreateCollection, DeleteCollection, List,         *)
(* UpsertDocuments and Search, together with the two collaborators they    *)
(* call: the vector store behind client.Client and the text encoder.       *)
(*                                                                         *)
(* Strings are sequences of character codes, so the empty string is <<>>.  *)
(* Every call a repository operation makes on a collaborator is one step;  *)
(* an operation that makes several store calls (CreateCollection, Search)  *)
(* is a sequence of steps, one per store call, and the caller's position   *)
(* between them is part of the state.                                      *)
(***************************************************************************)
EXTENDS Integers, Sequences, FiniteSets, TLC

\* ---------------------------------------------------------------- bounds

\* Documents a caller may supply carry one of NumIds identifiers.
NumIds == 4
\* A batch handed to UpsertDocuments holds at most MaxBatch documents.
MaxBatch == 2

\* ------------------------------------------------------ program constants

\* The top-k argument of m.Client.Search.
TopK == 10
\* option.Limit and option.Offset of the search option.
Limit == 3
Offset == 0
\* The nprobe of the IVF_FLAT search parameter and the nlist of the index.
NProbe == 10
NList == 1024
\* The dimension of the embedding column.
Dim == 4096

ConsistencyLevelMutant == "Bounded"
\* option.ConsistencyLevel = entity.ClStrong
ConsistencyLevel == "Strong"

IgnoreGrowingMutant == TRUE
\* option.IgnoreGrowing = false
IgnoreGrowing == FALSE

\* The output fields requested from the store: the id column is not among them.
OutputFields == {"title", "content", "category"}

\* ------------------------------------------------------------ input sets

Collections == {"c1", "c2"}
\* Documents are upserted into these collections.
UpsertTargets == {"c1"}
\* Callers of the repository; SeqCallers call one operation at a time.
AllCallers == {"a", "b"}
SeqCallers == {"a"}

EmptyString == <<>>
ID(i) == <<i>>
IdSet == {ID(i) : i \in 1..NumIds}
Content(v) == <<100 + v>>
Document(i, v) ==
  [ID |-> ID(i), Title |-> <<i, v>>, Content |-> Content(v), Category |-> <<v, v>>]
\* The first identifier has two versions of its document, the others one.
Inputs == {Document(1, 1), Document(1, 2)} \cup {Document(i, 1) : i \in 2..NumIds}
Queries == {Content(1), Content(2)}

RECURSIVE SeqsUpTo(_, _)
SeqsUpTo(S, n) ==
  IF n = 0 THEN {<<>>}
  ELSE LET shorter == SeqsUpTo(S, n - 1)
       IN shorter \cup {Append(s, x) : s \in {t \in shorter : Len(t) = n - 1}, x \in S}

\* Batches of documents with pairwise different identifiers.
Batches ==
  {b \in SeqsUpTo(Inputs, MaxBatch) :
     \A i, j \in 1..Len(b) : i # j => b[i].ID # b[j].ID}

\* --------------------------------------------------------------- encoder

\* m.Encoder.Encode(text) on success: the embedding of the text, a vector of
\* Dim floats that is a function of the text alone.
Encode(text) == [dim |-> Dim, of |-> text]

\* Cosine similarity of two embeddings, as far as the order of results needs
\* it: an embedding is nearest to itself.
Similarity(a, b) == IF a = b THEN 1 ELSE 0

\* ------------------------------------------------------- the vector store

\* The five parallel columns UpsertDocuments assembles, position i of each
\* holding the i-th document's value.
ColumnsMutant(documents) ==
  [id        |-> [i \in 1..Len(documents) |-> documents[i].ID],
   title     |-> [i \in 1..Len(documents) |-> documents[i].Title],
   content   |-> [i \in 1..Len(documents) |-> documents[i].Title],
   category  |-> [i \in 1..Len(documents) |-> documents[i].Category],
   embedding |-> [i \in 1..Len(documents) |-> Encode(documents[i].Content)]]
Columns(documents) ==
  [id        |-> [i \in 1..Len(documents) |-> documents[i].ID],
   title     |-> [i \in 1..Len(documents) |-> documents[i].Title],
   content   |-> [i \in 1..Len(documents) |-> documents[i].Content],
   category  |-> [i \in 1..Len(documents) |-> documents[i].Category],
   embedding |-> [i \in 1..Len(documents) |-> Encode(documents[i].Content)]]

\* The rows a column-oriented request carries; a row just written is in a
\* growing segment.
RowsOf(cols) ==
  {[id |-> cols.id[i], title |-> cols.title[i], content |-> cols.content[i],
    category |-> cols.category[i], embedding |-> cols.embedding[i],
    segment |-> "growing"] : i \in 1..Len(cols.id)}

\* m.Client.Upsert on success: the rows of the request replace the rows that
\* carry the same primary key, the others are kept.
BackendUpsert(rows, cols) ==
  {r \in rows : \A i \in 1..Len(cols.id) : r.id # cols.id[i]} \cup RowsOf(cols)

\* The option and arguments Search hands to m.Client.Search.
SearchRequest(encodedQuery) ==
  [vector |-> encodedQuery, field |-> "embedding", metric |-> "COSINE",
   outputFields |-> OutputFields, topK |-> TopK, nprobe |-> NProbe,
   limit |-> Limit, offset |-> Offset,
   level |-> ConsistencyLevel, ignoreGrowing |-> IgnoreGrowing]

\* The sets of rows a similarity search may see: sealed segments always;
\* growing segments unless the request ignores them; under strong consistency
\* every acknowledged write, under a weaker level possibly not the latest.
VisibleSets(rows, req) ==
  LET sealed == {r \in rows : r.segment = "sealed"}
  IN IF req.ignoreGrowing THEN {sealed}
     ELSE IF req.level = "Strong" THEN {rows}
     ELSE {sealed \cup g : g \in SUBSET (rows \ sealed)}

\* r is ranked no later than s: by descending similarity, then by primary key.
Before(r, s, vector) ==
  \/ Similarity(vector, r.embedding) > Similarity(vector, s.embedding)
  \/ /\ Similarity(vector, r.embedding) = Similarity(vector, s.embedding)
     /\ r.id[1] <= s.id[1]

RECURSIVE Rank(_, _, _)
Rank(rows, vector, k) ==
  IF rows = {} \/ k <= 0 THEN <<>>
  ELSE LET best == CHOOSE r \in rows : \A s \in rows : Before(r, s, vector)
       IN <<best>> \o Rank(rows \ {best}, vector, k - 1)

\* m.Client.Search on success: searchResult[0], the top-k visible rows after
\* the offset, as the primary keys and one column per output field. The size
\* of the result is set by the top-k argument.
BackendSearch(visible, req) ==
  LET ranked == Rank(visible, req.vector, req.topK)
      hits == SubSeq(ranked, req.offset + 1, Len(ranked))
  IN [IDs    |-> [i \in 1..Len(hits) |-> hits[i].id],
      Fields |-> [title    |-> [i \in 1..Len(hits) |-> hits[i].title],
                  content  |-> [i \in 1..Len(hits) |-> hits[i].content],
                  category |-> [i \in 1..Len(hits) |-> hits[i].category]]]

NoResult == [IDs |-> <<>>, Fields |-> [title |-> <<>>, content |-> <<>>, category |-> <<>>]]
NoRequest == [vector |-> Encode(EmptyString), field |-> "", metric |-> "",
              outputFields |-> {}, topK |-> 0, nprobe |-> 0, limit |-> 0, offset |-> 0,
              level |-> "", ignoreGrowing |-> FALSE]

\* ------------------------------------------------------------------ state

VARIABLES
  exists,   \* store: the collections that exist
  indexed,  \* store: the collections with an index on the embedding field
  loaded,   \* store: the collections in query-serving state
  store,    \* store: the rows of each collection
  call,     \* per caller: the operation in progress or just returned
  dropped,  \* history: collections whose DeleteCollection returned nil, with
            \* no CreateCollection of that name called since
  acked,    \* history: per collection and primary key, the document of the
            \* latest UpsertDocuments that returned nil
  replaced  \* history: the <<collection, primary key>> pairs for which an
            \* UpsertDocuments that returned nil followed another one that
            \* carried a different content

vars == <<exists, indexed, loaded, store, call, dropped, acked, replaced>>

NoDocument == [ID |-> EmptyString, Title |-> EmptyString, Content |-> EmptyString,
               Category |-> EmptyString]

\* A caller between operations.
Idle ==
  [pc |-> "idle", op |-> "none", coll |-> "", query |-> EmptyString,
   calls |-> <<>>, err |-> "nil", documents |-> <<>>, names |-> <<>>,
   req |-> NoRequest, searchResult |-> NoResult, afterDrop |-> FALSE,
   batch |-> <<>>, requests |-> <<>>]

Init ==
  /\ exists = {}
  /\ indexed = {}
  /\ loaded = {}
  /\ store = [c \in Collections |-> {}]
  /\ call = [p \in AllCallers |-> Idle]
  /\ dropped = {}
  /\ acked = [c \in Collections |-> [k \in IdSet |-> NoDocument]]
  /\ replaced = {}

\* One call on a collaborator and whether it succeeded.
Called(name, ok) == [call |-> name, ok |-> ok]

\* ------------------------------------------------------- CreateCollection

\* After m.Client.CreateCollection: the error is returned, or buildIndex is next.
CreateAfterSchemaMutant(ok) == "create_index"
CreateAfterSchema(ok) == IF ok THEN "create_index" ELSE "done"

\* What CreateCollection returns after buildIndex.
CreateCollectionResultMutant(indexOk) == "nil"
CreateCollectionResult(indexOk) == IF indexOk THEN "nil" ELSE "failed to build index"

\* CreateCollection up to and including the schema submission. The store
\* refuses a name that is already in use.
CreateCollection(p, c, backendOk) ==
  LET ok == backendOk /\ c \notin exists
  IN /\ call[p].pc = "idle"
     /\ exists' = IF ok THEN exists \cup {c} ELSE exists
     /\ call' = [q \in AllCallers |->
                  IF q = p
                  THEN [Idle EXCEPT !.pc = CreateAfterSchema(ok), !.op = "create",
                                    !.coll = c, !.calls = <<Called("create", ok)>>,
                                    !.err = IF ok THEN "nil"
                                            ELSE "failed to create collection"]
                  ELSE IF call[q].coll = c
                       THEN [call[q] EXCEPT !.afterDrop = FALSE]
                       ELSE call[q]]
     /\ dropped' = dropped \ {c}
     /\ UNCHANGED <<indexed, loaded, store, acked, replaced>>

\* buildIndex: m.Client.CreateIndex on the embedding field, and the return
\* of CreateCollection.
BuildIndex(p, backendOk) ==
  LET c == call[p].coll
      ok == backendOk /\ c \in exists
  IN /\ call[p].pc = "create_index"
     /\ indexed' = IF ok THEN indexed \cup {c} ELSE indexed
     /\ call' = [call EXCEPT ![p].pc = "done",
                             ![p].calls = Append(@, Called("index", ok)),
                             ![p].err = IF call[p].err # "nil" THEN call[p].err
                                        ELSE CreateCollectionResult(ok)]
     /\ UNCHANGED <<exists, loaded, store, dropped, acked, replaced>>

\* ------------------------------------------------------- DeleteCollection

\* What DeleteCollection returns after m.Client.DropCollection.
DeleteCollectionResultMutant(ok) == "nil"
DeleteCollectionResult(ok) == IF ok THEN "nil" ELSE "failed to drop collection"

\* DeleteCollection: the store drops the collection with its rows and index.
DeleteCollection(p, c, backendOk) ==
  LET ok == backendOk /\ c \in exists
      err == DeleteCollectionResult(ok)
  IN /\ call[p].pc = "idle"
     /\ exists' = IF ok THEN exists \ {c} ELSE exists
     /\ indexed' = IF ok THEN indexed \ {c} ELSE indexed
     /\ loaded' = IF ok THEN loaded \ {c} ELSE loaded
     /\ store' = IF ok THEN [store EXCEPT ![c] = {}] ELSE store
     /\ call' = [call EXCEPT ![p] = [Idle EXCEPT !.pc = "done", !.op = "delete",
                                                 !.coll = c, !.err = err,
                                                 !.calls = <<Called("drop", ok)>>]]
     /\ dropped' = IF err = "nil" THEN dropped \cup {c} ELSE dropped
     /\ acked' = IF ok THEN [acked EXCEPT ![c] = [k \in IdSet |-> NoDocument]]
                 ELSE acked
     /\ replaced' = IF ok THEN {x \in replaced : x[1] # c} ELSE replaced

\* ------------------------------------------------------------------- List

\* m.Client.ListCollections on success: one entry per existing collection,
\* in an order of the store's choosing.
BackendList ==
  {l \in [1..Cardinality(exists) -> [Name : exists, Loaded : BOOLEAN]] :
     /\ \A i, j \in 1..Cardinality(exists) : i # j => l[i].Name # l[j].Name
     /\ \A i \in 1..Cardinality(exists) : l[i].Loaded = (l[i].Name \in loaded)}

\* The names List collects from the entries of the listing.
ListNamesMutant(listColl) == [i \in 1..(Len(listColl) - 1) |-> listColl[i + 1].Name]
ListNames(listColl) == [i \in 1..Len(listColl) |-> listColl[i].Name]

\* List: the names of the collections the store lists, nil on an error.
List(p, backendOk) ==
  /\ call[p].pc = "idle"
  /\ \E listColl \in BackendList :
       call' = [call EXCEPT ![p] =
                 [Idle EXCEPT !.pc = "done", !.op = "list",
                              !.calls = <<Called("list", backendOk)>>,
                              !.names = IF backendOk THEN ListNames(listColl) ELSE <<>>,
                              !.err = IF backendOk THEN "nil"
                                      ELSE "failed to list collections"]]
  /\ UNCHANGED <<exists, indexed, loaded, store, dropped, acked, replaced>>

\* -------------------------------------------------------- UpsertDocuments

\* The encoder calls of the loop over the documents: failAt is the position
\* of the first document whose encoding fails, 0 when none does. The loop
\* returns at the first failure.
EncodeCalls(documents, failAt) ==
  [i \in 1..(IF failAt = 0 THEN Len(documents) ELSE failAt) |->
     Called("encode", i # failAt)]

\* The upsert requests UpsertDocuments issues: one, carrying the columns of
\* the whole batch, once every document is encoded; none when an encoding
\* failed.
UpsertRequestsMutant(documents, failAt) ==
  IF failAt = 0 THEN <<Columns(documents)>>
  ELSE <<Columns(SubSeq(documents, 1, failAt - 1))>>
UpsertRequests(documents, failAt) ==
  IF failAt = 0 THEN <<Columns(documents)>> ELSE <<>>

\* UpsertDocuments; traced, the caller's record keeps the batch it was
\* handed and the upsert requests it issued.
Upsert(p, c, documents, failAt, backendOk, traced) ==
  LET requests == UpsertRequests(documents, failAt)
      ok == backendOk /\ c \in exists
      err == IF failAt # 0 THEN "fail to encode content"
             ELSE IF ok THEN "nil" ELSE "fail to upsert data"
  IN /\ call[p].pc = "idle"
     /\ store' = IF requests # <<>> /\ ok
                 THEN [store EXCEPT ![c] = BackendUpsert(@, requests[1])]
                 ELSE store
     /\ call' = [call EXCEPT ![p] =
                  [Idle EXCEPT !.pc = "done", !.op = "upsert", !.coll = c, !.err = err,
                               !.batch = IF traced THEN documents ELSE <<>>,
                               !.requests = IF traced THEN requests ELSE <<>>,
                               !.calls = EncodeCalls(documents, failAt)
                                         \o [i \in 1..Len(requests) |-> Called("upsert", ok)]]]
     /\ acked' = IF err = "nil"
                 THEN [acked EXCEPT ![c] =
                        [k \in IdSet |->
                           IF \E i \in 1..Len(documents) : documents[i].ID = k
                           THEN documents[CHOOSE i \in 1..Len(documents) : documents[i].ID = k]
                           ELSE @[k]]]
                 ELSE acked
     /\ replaced' = IF err = "nil"
                    THEN replaced \cup
                         {<<c, documents[i].ID>> : i \in
                            {j \in 1..Len(documents) :
                               /\ acked[c][documents[j].ID] # NoDocument
                               /\ acked[c][documents[j].ID].Content # documents[j].Content}}
                    ELSE replaced
     /\ UNCHANGED <<exists, indexed, loaded, dropped>>

UpsertDocuments(p, c, documents, failAt, backendOk) ==
  Upsert(p, c, documents, failAt, backendOk, FALSE)

UpsertDocumentsTraced(p, c, documents, failAt, backendOk) ==
  Upsert(p, c, documents, failAt, backendOk, TRUE)

\* ----------------------------------------------------------------- Search

\* The documents Search builds from the result columns: one per entry of the
\* title column, the identifier left empty.
DecodeResultMutant(searchResult) ==
  [i \in 1..Len(searchResult.Fields.title) |->
     [ID |-> EmptyString,
      Title |-> searchResult.Fields.title[i],
      Content |-> searchResult.Fields.content[i],
      Category |-> searchResult.Fields.title[i]]]
DecodeResult(searchResult) ==
  [i \in 1..Len(searchResult.Fields.title) |->
     [ID |-> EmptyString,
      Title |-> searchResult.Fields.title[i],
      Content |-> searchResult.Fields.content[i],
      Category |-> searchResult.Fields.category[i]]]

\* What Search returns after m.Client.ReleaseCollection.
SearchReturnMutant(documents, releaseOk) ==
  [documents |-> documents,
   err |-> IF releaseOk THEN "nil" ELSE "failed to release collection"]
SearchReturn(documents, releaseOk) ==
  IF releaseOk THEN [documents |-> documents, err |-> "nil"]
  ELSE [documents |-> <<>>, err |-> "failed to release collection"]

\* After m.Client.LoadCollection: the error is returned, or the similarity
\* search is next.
SearchAfterLoadMutant(ok) == "search_query"
SearchAfterLoad(ok) == IF ok THEN "search_query" ELSE "done"

\* Search up to and including m.Client.LoadCollection: the query is encoded,
\* then the collection is loaded; the store loads a collection that exists
\* and has its index.
SearchLoad(p, c, query, encodeOk, backendOk) ==
  LET ok == backendOk /\ c \in exists /\ c \in indexed
  IN /\ call[p].pc = "idle"
     /\ loaded' = IF encodeOk /\ ok THEN loaded \cup {c} ELSE loaded
     /\ call' = [call EXCEPT ![p] =
                  [Idle EXCEPT !.op = "search", !.coll = c, !.query = query,
                               !.afterDrop = (c \in dropped),
                               !.pc = IF encodeOk THEN SearchAfterLoad(ok) ELSE "done",
                               !.calls = IF encodeOk
                                         THEN <<Called("encode", TRUE), Called("load", ok)>>
                                         ELSE <<Called("encode", FALSE)>>,
                               !.err = IF ~encodeOk THEN "fail to encode query"
                                       ELSE IF ok THEN "nil"
                                       ELSE "failed to load collection"]]
     /\ UNCHANGED <<exists, indexed, store, dropped, acked, replaced>>

\* m.Client.Search and the decoding of its result; on an error Search
\* returns at once. The store searches a collection that is loaded.
SearchQuery(p, backendOk) ==
  LET c == call[p].coll
      req == SearchRequest(Encode(call[p].query))
      ok == backendOk /\ c \in loaded
  IN /\ call[p].pc = "search_query"
     /\ \E visible \in VisibleSets(store[c], req) :
          LET searchResult == BackendSearch(visible, req)
          IN call' = [call EXCEPT
                        ![p].calls = Append(@, Called("search", ok)),
                        ![p].req = req,
                        ![p].pc = IF ok THEN "search_release" ELSE "done",
                        ![p].err = IF ok THEN "nil" ELSE "fail to search collection",
                        ![p].searchResult = IF ok THEN searchResult ELSE NoResult,
                        ![p].documents = IF ok THEN DecodeResult(searchResult)
                                         ELSE <<>>]
     /\ UNCHANGED <<exists, indexed, loaded, store, dropped, acked, replaced>>

\* Search ending with a drop of the collection in place of its release.
SearchReleaseMutant(p, backendOk) ==
  LET c == call[p].coll
      ok == backendOk /\ c \in exists
      ret == SearchReturn(call[p].documents, ok)
  IN /\ call[p].pc = "search_release"
     /\ exists' = IF ok THEN exists \ {c} ELSE exists
     /\ indexed' = IF ok THEN indexed \ {c} ELSE indexed
     /\ loaded' = IF ok THEN loaded \ {c} ELSE loaded
     /\ store' = IF ok THEN [store EXCEPT ![c] = {}] ELSE store
     /\ call' = [call EXCEPT ![p].calls = Append(@, Called("release", ok)),
                             ![p].pc = "done",
                             ![p].err = ret.err,
                             ![p].documents = ret.documents]
     /\ UNCHANGED <<dropped, acked, replaced>>

\* m.Client.ReleaseCollection and the return of Search.
SearchRelease(p, backendOk) ==
  LET c == call[p].coll
      ok == backendOk /\ c \in exists
      ret == SearchReturn(call[p].documents, ok)
  IN /\ call[p].pc = "search_release"
     /\ loaded' = IF ok THEN loaded \ {c} ELSE loaded
     /\ call' = [call EXCEPT ![p].calls = Append(@, Called("release", ok)),
                             ![p].pc = "done",
                             ![p].err = ret.err,
                             ![p].documents = ret.documents]
     /\ UNCHANGED <<exists, indexed, store, dropped, acked, replaced>>

\* ------------------------------------------------------------ environment

\* The caller takes the result; it may call again.
Return(p) ==
  /\ call[p].pc = "done"
  /\ call' = [call EXCEPT ![p] = Idle]
  /\ UNCHANGED <<exists, indexed, loaded, store, dropped, acked, replaced>>

\* The store seals the growing segments of a collection.
Flush(c) ==
  /\ \E r \in store[c] : r.segment = "growing"
  /\ store' = [store EXCEPT ![c] = {[r EXCEPT !.segment = "sealed"] : r \in @}]
  /\ UNCHANGED <<exists, indexed, loaded, call, dropped, acked, replaced>>

\* ---------------------------------------------------------- specification

Next ==
  \/ \E p \in SeqCallers, c \in Collections, ok \in BOOLEAN : CreateCollection(p, c, ok)
  \/ \E p \in SeqCallers, ok \in BOOLEAN : BuildIndex(p, ok)
  \/ \E p \in SeqCallers, c \in Collections, ok \in BOOLEAN : DeleteCollection(p, c, ok)
  \/ \E p \in SeqCallers, ok \in BOOLEAN : List(p, ok)
  \/ \E p \in SeqCallers, c \in UpsertTargets, documents \in Batches :
       \* the store is called, and may fail, only when no encoding failed
       \E failAt \in 0..Len(documents), ok \in BOOLEAN :
         (failAt # 0 => ok) /\ UpsertDocuments(p, c, documents, failAt, ok)
  \/ \E p \in SeqCallers, c \in Collections, query \in Queries,
        encodeOk \in BOOLEAN, ok \in BOOLEAN : SearchLoad(p, c, query, encodeOk, ok)
  \/ \E p \in SeqCallers, ok \in BOOLEAN : SearchQuery(p, ok)
  \/ \E p \in SeqCallers, ok \in BOOLEAN : SearchRelease(p, ok)
  \/ \E p \in SeqCallers : Return(p)
  \/ \E c \in Collections : Flush(c)

Spec == Init /\ [][Next]_vars

\* The document writer on its own, with its calls traced: collections are
\* created and dropped, batches upserted, segments sealed.
UpsertNext ==
  \/ \E p \in SeqCallers, c \in UpsertTargets, ok \in BOOLEAN : CreateCollection(p, c, ok)
  \/ \E p \in SeqCallers, ok \in BOOLEAN : BuildIndex(p, ok)
  \/ \E p \in SeqCallers, c \in UpsertTargets, ok \in BOOLEAN : DeleteCollection(p, c, ok)
  \/ \E p \in SeqCallers, c \in UpsertTargets, documents \in Batches :
       \E failAt \in 0..Len(documents), ok \in BOOLEAN :
         (failAt # 0 => ok) /\ UpsertDocumentsTraced(p, c, documents, failAt, ok)
  \/ \E p \in SeqCallers : Return(p)
  \/ \E c \in UpsertTargets : Flush(c)

UpsertSpec == Init /\ [][UpsertNext]_vars

\* Batches of one document under the first identifier.
ConcBatches == {b \in Batches : Len(b) = 1 /\ b[1].ID = ID(1)}

\* Concurrent callers: the repository takes no lock, so the steps of the
\* callers' operations interleave, one store call at a time. Collections are
\* created, filled and searched; none is dropped.
ConcNext ==
  \/ \E p \in AllCallers, c \in UpsertTargets, ok \in BOOLEAN : CreateCollection(p, c, ok)
  \/ \E p \in AllCallers, ok \in BOOLEAN : BuildIndex(p, ok)
  \/ \E p \in AllCallers, c \in UpsertTargets, documents \in ConcBatches :
       \E failAt \in 0..Len(documents), ok \in BOOLEAN :
         (failAt # 0 => ok) /\ UpsertDocuments(p, c, documents, failAt, ok)
  \/ \E p \in AllCallers, c \in UpsertTargets, query \in Queries,
        encodeOk \in BOOLEAN, ok \in BOOLEAN : SearchLoad(p, c, query, encodeOk, ok)
  \/ \E p \in AllCallers, ok \in BOOLEAN : SearchQuery(p, ok)
  \/ \E p \in AllCallers, ok \in BOOLEAN : SearchRelease(p, ok)
  \/ \E p \in AllCallers : Return(p)
  \/ \E c \in UpsertTargets : Flush(c)

ConcSpec == Init /\ [][ConcNext]_vars

\* ---------------------------------------------------------------- helpers

\* Caller p's operation op has returned.
Returned(p, op) == call[p].pc = "done" /\ call[p].op = op

\* The collaborator calls of caller p's operation named name.
CallsNamed(p, name) == {i \in 1..Len(call[p].calls) : call[p].calls[i].call = name}

\* Caller p's operation made the call name, and it succeeded / failed.
Succeeded(p, name) == \E i \in CallsNamed(p, name) : call[p].calls[i].ok
Failed(p, name) == \E i \in CallsNamed(p, name) : ~call[p].calls[i].ok

\* The rows of collection c under primary key k.
RowsUnder(c, k) == {r \in store[c] : r.id = k}

\* Document d is among the documents caller p's Search returned, as far as
\* title, content and category go.
ReturnsFieldsOf(p, d) ==
  \E i \in 1..Len(call[p].documents) :
    /\ call[p].documents[i].Title = d.Title
    /\ call[p].documents[i].Content = d.Content
    /\ call[p].documents[i].Category = d.Category

\* The primary keys of the result m.Client.Search gave caller p.
HitIds(p) == {call[p].searchResult.IDs[i] : i \in 1..Len(call[p].searchResult.IDs)}

\* ------------------------------------------------------------------ claims

\* C1: when the encoder fails for a document of the batch, at any position,
\* UpsertDocuments returns an error, has issued no upsert request, and the
\* rows of every collection are what they were before the call.
C1_UpsertAllOrNothing ==
  [][\A p \in AllCallers :
       (/\ call[p].pc = "idle"
        /\ call'[p].pc = "done"
        /\ call'[p].op = "upsert"
        /\ \E i \in 1..Len(call'[p].calls) : call'[p].calls[i] = Called("encode", FALSE))
       => /\ call'[p].err # "nil"
          /\ \A i \in 1..Len(call'[p].calls) : call'[p].calls[i].call # "upsert"
          /\ store' = store]_vars

\* An UpsertDocuments whose second document failed to encode has returned,
\* on a collection that holds documents.
C1_Witness ==
  \E p \in AllCallers :
    /\ Returned(p, "upsert")
    /\ call[p].calls = <<Called("encode", TRUE), Called("encode", FALSE)>>
    /\ store[call[p].coll] # {}

\* C2: a Search whose load succeeded has attempted a release by the time
\* it returns, whether the similarity search succeeded or failed.
C2_ReleaseAlwaysAttempted ==
  \A p \in AllCallers :
    (Returned(p, "search") /\ Succeeded(p, "load")) => CallsNamed(p, "release") # {}

\* C3: Search never returns more than 3 (option.Limit) documents.
C3_AtMostLimitDocuments ==
  \A p \in AllCallers : Returned(p, "search") => Len(call[p].documents) <= Limit

\* C4: a Search(c, x) that returns nil returns the title, content and
\* category of every document d with d.Content = x whose upsert into c was
\* acknowledged (and not replaced or dropped since), the collection
\* holding no more than top-k rows.
C4_RoundTrip ==
  \A p \in AllCallers :
    (Returned(p, "search") /\ call[p].err = "nil")
    => \A k \in IdSet :
         LET d == acked[call[p].coll][k]
         IN (/\ d # NoDocument
             /\ d.Content = call[p].query
             /\ Cardinality(store[call[p].coll]) <= TopK)
            => ReturnsFieldsOf(p, d)

\* A Search for the content of an acknowledged document, still in a growing
\* segment, has returned nil.
C4_Witness ==
  \E p \in AllCallers, k \in IdSet :
    /\ Returned(p, "search") /\ call[p].err = "nil"
    /\ acked[call[p].coll][k] # NoDocument
    /\ acked[call[p].coll][k].Content = call[p].query
    /\ \E r \in RowsUnder(call[p].coll, k) : r.segment = "growing"

\* C5: a collection holds exactly one row under the primary key of an
\* acknowledged document, with the title, content and category of the latest
\* acknowledged upsert under that key and the embedding of its content.
C5_IdempotentReplace ==
  \A c \in Collections, k \in IdSet :
    acked[c][k] # NoDocument
    => /\ Cardinality(RowsUnder(c, k)) = 1
       /\ \A r \in RowsUnder(c, k) :
            /\ r.title = acked[c][k].Title
            /\ r.content = acked[c][k].Content
            /\ r.category = acked[c][k].Category
            /\ r.embedding = Encode(acked[c][k].Content)

\* Two successive acknowledged upserts under one primary key carried
\* different contents.
C5_Witness ==
  \E c \in Collections, k \in IdSet :
    /\ <<c, k>> \in replaced
    /\ acked[c][k] # NoDocument

\* C6: a Search(c, q) called after DeleteCollection(c) returned nil, with no
\* CreateCollection(c) called in between, returns an error and no documents.
C6_DeletionFinality ==
  \A p \in AllCallers :
    (Returned(p, "search") /\ call[p].afterDrop)
    => call[p].err # "nil" /\ call[p].documents = <<>>

\* A Search of a dropped collection has returned after its encoder call
\* succeeded.
C6_Witness ==
  \E p \in AllCallers :
    Returned(p, "search") /\ call[p].afterDrop /\ Succeeded(p, "encode")

\* C7: when the store rejects the schema submission, CreateCollection
\* returns an error and issues no create-index request.
C7_NoIndexAfterFailedSchema ==
  \A p \in AllCallers :
    (call[p].op = "create" /\ Failed(p, "create"))
    => /\ call[p].pc = "done"
       /\ call[p].err # "nil"
       /\ CallsNamed(p, "index") = {}

\* A CreateCollection whose schema submission failed has returned.
C7_Witness ==
  \E p \in AllCallers : Returned(p, "create") /\ Failed(p, "create")

\* C8: when index construction fails after the schema submission succeeded,
\* CreateCollection returns an error without a drop request: the collection
\* exists and has no index.
C8_NoRollbackOnIndexFailure ==
  \A p \in AllCallers :
    (Returned(p, "create") /\ Succeeded(p, "create") /\ Failed(p, "index"))
    => /\ call[p].err # "nil"
       /\ CallsNamed(p, "drop") = {}
       /\ call[p].coll \in exists
       /\ call[p].coll \notin indexed

\* A CreateCollection whose index construction failed has returned.
C8_Witness ==
  \E p \in AllCallers :
    Returned(p, "create") /\ Succeeded(p, "create") /\ Failed(p, "index")

\* C9: when load and similarity search succeeded and the release fails,
\* Search returns an error and no documents.
C9_FailClosedOnRelease ==
  \A p \in AllCallers :
    (/\ Returned(p, "search")
     /\ Succeeded(p, "load") /\ Succeeded(p, "search") /\ Failed(p, "release"))
    => call[p].err # "nil" /\ call[p].documents = <<>>

\* A Search whose similarity search found rows and whose release failed has
\* returned.
C9_Witness ==
  \E p \in AllCallers :
    /\ Returned(p, "search")
    /\ Succeeded(p, "search") /\ Failed(p, "release")
    /\ HitIds(p) # {}

\* C10 as stated, in its consequence: no row that is in a growing segment is
\* in the result of a similarity search.
C10_GrowingNeverReturned ==
  \A p \in AllCallers :
    (call[p].op = "search" /\ Succeeded(p, "search"))
    => \A r \in store[call[p].coll] : r.segment = "growing" => r.id \notin HitIds(p)

\* C10 amended: a similarity search requests strong consistency and does not
\* exclude growing segments: every row of the collection, growing or sealed,
\* is a candidate, and is in the result when the collection holds no more
\* than top-k rows.
C10_StrongAndGrowingIncluded ==
  \A p \in AllCallers :
    (call[p].op = "search" /\ Succeeded(p, "search"))
    => /\ call[p].req.level = "Strong"
       /\ ~call[p].req.ignoreGrowing
       /\ Cardinality(store[call[p].coll]) <= TopK
          => \A r \in store[call[p].coll] : r.id \in HitIds(p)

\* A similarity search has returned a row that is in a growing segment.
C10_Witness ==
  \E p \in AllCallers :
    /\ call[p].pc = "search_release"
    /\ \E r \in store[call[p].coll] : r.segment = "growing" /\ r.id \in HitIds(p)

\* The error an operation returns when its call name fails.
ErrorOf(op, name) ==
  CASE name = "create"  -> "failed to create collection"
    [] name = "index"   -> "failed to build index"
    [] name = "drop"    -> "failed to drop collection"
    [] name = "list"    -> "failed to list collections"
    [] name = "upsert"  -> "fail to upsert data"
    [] name = "load"    -> "failed to load collection"
    [] name = "search"  -> "fail to search collection"
    [] name = "release" -> "failed to release collection"
    [] name = "encode"  -> IF op = "upsert" THEN "fail to encode content"
                           ELSE "fail to encode query"

\* C11: in every operation a failed encoder or store call is the last call
\* made, the operation has returned and returned that call's error; an
\* operation that returned nil made only calls that succeeded; and no store
\* call is made twice in one operation.
C11_FailureAbortsNoRetry ==
  \A p \in AllCallers :
    LET cs == call[p].calls
    IN /\ \A i \in 1..Len(cs) :
            ~cs[i].ok => /\ i = Len(cs)
                         /\ call[p].pc = "done"
                         /\ call[p].err = ErrorOf(call[p].op, cs[i].call)
       /\ (call[p].pc = "done" /\ call[p].err = "nil") => \A i \in 1..Len(cs) : cs[i].ok
       /\ \A i, j \in 1..Len(cs) :
            (i # j /\ cs[i].call = cs[j].call) => cs[i].call = "encode"

\* A Search has returned after its third call, the similarity search, failed.
C11_Witness ==
  \E p \in AllCallers :
    /\ Returned(p, "search")
    /\ Len(call[p].calls) = 3
    /\ ~call[p].calls[3].ok

\* C12: when the store's list call succeeds, List returns nil and exactly
\* the names of the existing collections, each once; on a store without
\* collections that is the empty list.
C12_ListExistingNames ==
  \A p \in AllCallers :
    (Returned(p, "list") /\ Succeeded(p, "list"))
    => /\ call[p].err = "nil"
       /\ {call[p].names[i] : i \in 1..Len(call[p].names)} = exists
       /\ Len(call[p].names) = Cardinality(exists)

\* A List has returned the names of two collections.
C12_Witness ==
  \E p \in AllCallers :
    Returned(p, "list") /\ Succeeded(p, "list") /\ Len(call[p].names) = 2

\* C13: when every document of a batch of N >= 0 documents is encoded,
\* UpsertDocuments makes N encoder calls and then exactly one upsert request,
\* which carries the five columns id, title, content, category and embedding,
\* each of length N, position i holding the i-th document's field and the
\* embedding of its content.
C13_OneRequestOfParallelColumns ==
  \A p \in AllCallers :
    (Returned(p, "upsert") /\ ~Failed(p, "encode"))
    => LET n == Len(call[p].batch)
           cs == call[p].calls
       IN /\ Len(cs) = n + 1
          /\ \A i \in 1..n : cs[i].call = "encode"
          /\ cs[n + 1].call = "upsert"
          /\ Len(call[p].requests) = 1
          /\ LET cols == call[p].requests[1]
             IN /\ DOMAIN cols = {"id", "title", "content", "category", "embedding"}
                /\ \A f \in DOMAIN cols : Len(cols[f]) = n
                /\ \A i \in 1..n :
                     /\ cols.id[i] = call[p].batch[i].ID
                     /\ cols.title[i] = call[p].batch[i].Title
                     /\ cols.content[i] = call[p].batch[i].Content
                     /\ cols.category[i] = call[p].batch[i].Category
                     /\ cols.embedding[i] = Encode(call[p].batch[i].Content)

\* An UpsertDocuments of two documents of different contents, both encoded,
\* has returned.
C13_Witness ==
  \E p \in AllCallers :
    /\ Returned(p, "upsert") /\ ~Failed(p, "encode")
    /\ Len(call[p].batch) = 2
    /\ call[p].batch[1].Content # call[p].batch[2].Content

\* C14: a Search that returns nil returns one document per row of the
\* store's result, in the result's order, which is by descending similarity
\* to the query: the i-th document carries the i-th title, content and
\* category of the result columns and the empty string as its ID.
C14_DocumentsFollowResult ==
  \A p \in AllCallers :
    (Returned(p, "search") /\ call[p].err = "nil")
    => LET result == call[p].searchResult
           docs == call[p].documents
           sim(i) == Similarity(Encode(call[p].query), Encode(docs[i].Content))
       IN /\ Len(docs) = Len(result.IDs)
          /\ \A i \in 1..Len(docs) :
               /\ docs[i].ID = EmptyString
               /\ docs[i].Title = result.Fields.title[i]
               /\ docs[i].Content = result.Fields.content[i]
               /\ docs[i].Category = result.Fields.category[i]
          /\ \A i, j \in 1..Len(docs) : i < j => sim(i) >= sim(j)

\* A Search has returned nil with a document that matches the query ahead of
\* one that does not.
C14_Witness ==
  \E p \in AllCallers :
    /\ Returned(p, "search") /\ call[p].err = "nil"
    /\ Len(call[p].documents) >= 2
    /\ call[p].documents[1].Content = call[p].query
    /\ call[p].documents[2].Content # call[p].query

\* C15: Search calls the encoder, then load, then the similarity search: when
\* the encoding of the query fails it returns an error having made no store
\* call, and when the load fails it returns an error having made no
\* similarity search.
C15_EncodeLoadSearchOrder ==
  \A p \in AllCallers :
    call[p].op = "search"
    => LET cs == call[p].calls
           order == <<"encode", "load", "search", "release">>
       IN /\ Len(cs) <= Len(order)
          /\ \A i \in 1..Len(cs) : cs[i].call = order[i]
          /\ Failed(p, "encode")
             => call[p].pc = "done" /\ call[p].err # "nil" /\ Len(cs) = 1
          /\ Failed(p, "load")
             => /\ call[p].pc = "done" /\ call[p].err # "nil"
                /\ CallsNamed(p, "search") = {}

\* A Search whose load failed has returned.
C15_Witness ==
  \E p \in AllCallers : Returned(p, "search") /\ Failed(p, "load")

\* C16: with Search calls running concurrently on one collection, a call
\* whose load succeeded finds the collection loaded until its similarity
\* search is made: no other call's release unloads it in between.
C16_LoadedUntilSearch ==
  \A p \in AllCallers :
    call[p].pc = "search_query" => call[p].coll \in loaded

\* C17: a step of Search or List, successful or failed, leaves the set of
\* existing collections, their indexes and the rows of every collection as
\* they were; Search changes only whether the collection is loaded.
C17_SearchAndListKeepData ==
  [][\A p \in AllCallers :
       (/\ call'[p].op \in {"search", "list"}
        /\ Len(call'[p].calls) > Len(call[p].calls))
       => /\ exists' = exists
          /\ indexed' = indexed
          /\ store' = store
          /\ call'[p].op = "list" => loaded' = loaded]_vars

\* A Search of a collection that holds rows has returned after its release.
C17_Witness ==
  \E p \in AllCallers :
    /\ Returned(p, "search")
    /\ Succeeded(p, "release")
    /\ store[call[p].coll] # {}

====
